---------------------------- MODULE Spec2Model ----------------------------
(***************************************************************************)
(* A model of vmdlib (src/vmd.c, src/vmd.h): the VMD motion-file codec.    *)
(* Files and record storage are byte sequences with the sizes of the       *)
(* packed structs of vmd.h; 32-bit unsigned quantities are kept as their   *)
(* four little-endian bytes, so that arithmetic wraps at 2^32 as in C.     *)
(***************************************************************************)
EXTENDS Integers, Sequences, FiniteSets, TLC

(***************************************************************************)
(* Bounds of the model.                                                    *)
(***************************************************************************)
\* the largest number of records an input file puts in one category
MaxFrames == 3

(***************************************************************************)
(* Program constants: vmd.h                                                *)
(***************************************************************************)
VMDLIB_E_INIT == 0
VMDLIB_E_FH == 1
VMDLIB_E_FT == 2
VMDLIB_E_ME == 3
VMDLIB_E_IV == 65535

VMDL_BONE == 0
VMDL_MORPH == 1
VMDL_CAMERA == 2
VMDL_LIGHT == 3
VMDL_SHADOW == 4
VMDL_IK == 5

\* the six values of VMDStructType, in the order of the file layout
VMDStructType == VMDL_BONE .. VMDL_IK

\* sizeof(target->header): char header[30]
MagicLen == 30
\* sizeof(VMDHeader): char header[30] + char model_name[20]
SizeOfHeader == 50
\* sizeof(uint32_t), the width of num_frames and of frame
SizeOfU32 == 4

\* sizeof of the packed single-frame struct of each category
SizeOfFrame(t) ==
  CASE t = VMDL_BONE -> 15 + 4 + 7 * 4 + 64
    [] t = VMDL_MORPH -> 15 + 4 + 4
    [] t = VMDL_CAMERA -> 4 + 7 * 4 + 24 + 4 + 1
    [] t = VMDL_LIGHT -> 4 + 6 * 4
    [] t = VMDL_SHADOW -> 4 + 1 + 4
    [] t = VMDL_IK -> 4 + 1 + 4 + (20 + 1)

\* offsetof(struct, frame) of the packed single-frame struct of each category
FrameOffset(t) ==
  CASE t = VMDL_BONE -> 15
    [] t = VMDL_MORPH -> 15
    [] OTHER -> 0

\* VMDLIB_MAGIC: "Vocaloid Motion Data 0002\0\0\0\0" and the literal's own
\* terminating null, 30 bytes in all
VMDLIB_MAGIC ==
  << 86, 111, 99, 97, 108, 111, 105, 100, 32,
     77, 111, 116, 105, 111, 110, 32,
     68, 97, 116, 97, 32,
     48, 48, 48, 50, 0, 0, 0, 0, 0 >>

(***************************************************************************)
(* uint32_t as four little-endian bytes, with C's arithmetic modulo 2^32.  *)
(***************************************************************************)
U32FromNat(n) ==
  << n % 256, (n \div 256) % 256, (n \div 65536) % 256, (n \div 16777216) % 256 >>

\* a + b as uint32_t
U32Add(a, b) ==
  LET s1 == a[1] + b[1]
      s2 == a[2] + b[2] + (s1 \div 256)
      s3 == a[3] + b[3] + (s2 \div 256)
      s4 == a[4] + b[4] + (s3 \div 256)
  IN  << s1 % 256, s2 % 256, s3 % 256, s4 % 256 >>

\* a - b as uint32_t (a + ~b + 1)
U32Sub(a, b) ==
  LET s1 == a[1] + (255 - b[1]) + 1
      s2 == a[2] + (255 - b[2]) + (s1 \div 256)
      s3 == a[3] + (255 - b[3]) + (s2 \div 256)
      s4 == a[4] + (255 - b[4]) + (s3 \div 256)
  IN  << s1 % 256, s2 % 256, s3 % 256, s4 % 256 >>

\* (uint32_t)(k * a) for a small size_t k: the product is truncated to 32 bits
U32Mul(k, a) ==
  LET p1 == k * a[1]
      p2 == k * a[2] + (p1 \div 256)
      p3 == k * a[3] + (p2 \div 256)
      p4 == k * a[4] + (p3 \div 256)
  IN  << p1 % 256, p2 % 256, p3 % 256, p4 % 256 >>

\* the size_t product k * a does not fit in 32 bits
U32MulOverflows(k, a) ==
  LET p1 == k * a[1]
      p2 == k * a[2] + (p1 \div 256)
      p3 == k * a[3] + (p2 \div 256)
      p4 == k * a[4] + (p3 \div 256)
  IN  p4 \div 256 # 0

\* the conversion of a uint32_t to int (two's complement)
U32ToInt(a) ==
  IF a[4] >= 128
  THEN (a[4] - 256) * 16777216 + a[3] * 65536 + a[2] * 256 + a[1]
  ELSE a[4] * 16777216 + a[3] * 65536 + a[2] * 256 + a[1]

\* a < b as unsigned 32-bit values
U32Less(a, b) ==
  \E i \in 1..4 : a[i] < b[i] /\ \A j \in (i+1)..4 : a[j] = b[j]

\* a value below 2^16: every buffer of the model is shorter than that
U32IsSmall(a) == a[3] = 0 /\ a[4] = 0
U32Val(a) == a[1] + 256 * a[2]

U32Zero == << 0, 0, 0, 0 >>

(***************************************************************************)
(* Memory.  A pointer is NULL or points at a block of bytes.  A read that  *)
(* leaves the bytes of the block yields indeterminate values: the          *)
(* environment picks the byte g that fills them.                           *)
(***************************************************************************)
\* the values an indeterminate byte takes
Garbage == {0, 255}

NullPtr == [null |-> TRUE, mem |-> << >>]
Block(bytes) == [null |-> FALSE, mem |-> bytes]

\* the n bytes at buf + off
MemRead(buf, off, n, g) ==
  [i \in 1..n |->
     IF U32IsSmall(off) /\ U32Val(off) + i <= Len(buf)
     THEN buf[U32Val(off) + i] ELSE g]

\* the n bytes at buf + off are not all bytes of buf
PastEnd(buf, off, n) ==
  n > 0 /\ ~(U32IsSmall(off) /\ U32Val(off) + n <= Len(buf))

\* the n bytes at content + off are not all inside malloc(fsize + 1)
Beyond(buf, off, n) ==
  n > 0 /\ ~(U32IsSmall(off) /\ U32Val(off) + n <= Len(buf) + 1)

\* the frame field of one array element, as qsort hands it to a comparator
FrameOf(elem, t) == SubSeq(elem, FrameOffset(t) + 1, FrameOffset(t) + SizeOfU32)

(***************************************************************************)
(* The in-memory document: VMDFile (vmd.h), or the NULL pointer.           *)
(***************************************************************************)
NullFile ==
  [null |-> TRUE, header |-> << >>,
   num |-> [t \in VMDStructType |-> U32Zero],
   frames |-> [t \in VMDStructType |-> NullPtr]]

\* __VMDCheckHeader: memcmp of the 30 magic bytes with the start of the data
VMDCheckHeader(data, g) == MemRead(data, U32Zero, MagicLen, g) = VMDLIB_MAGIC

(***************************************************************************)
(* VMDLoadFromFile, lines 158-227: the header copy and the six             *)
(* count-prefixed arrays.  env.g fills indeterminate bytes, env.fault says *)
(* whether an access outside an allocated block faults, env.mallocFail     *)
(* names the allocation that returns NULL (0: none, 1: content, 2: vf,     *)
(* 3 + t: the record storage of category t).                               *)
(***************************************************************************)
\* the state of the walk after vf = malloc(...) and the header copy
DecodeHeader(content, env) ==
  LET nullVf == env.mallocFail = 2
      cpy_size == SizeOfHeader
  IN  [offset   |-> U32FromNat(cpy_size),
       header   |-> MemRead(content, U32Zero, cpy_size, env.g),
       num      |-> [t \in VMDStructType |-> U32Zero],
       frames   |-> [t \in VMDStructType |-> NullPtr],
       consumed |-> [t \in VMDStructType |-> U32Zero],
       pastEnd  |-> PastEnd(content, U32Zero, cpy_size),
       nullCopy |-> nullVf,
       crashed  |-> nullVf \/ (env.fault /\ Beyond(content, U32Zero, cpy_size))]

\* one category: lines 163-172 (and their five copies)
DecodeCategory(content, env, t, st) ==
  IF st.crashed THEN st
  ELSE
    LET num_frames == MemRead(content, st.offset, SizeOfU32, env.g)
        offset1    == U32Add(st.offset, U32FromNat(SizeOfU32))
        cpy_size   == U32Mul(SizeOfFrame(t), num_frames)
        allocNull  == env.mallocFail = 3 + t
        countPast  == PastEnd(content, st.offset, SizeOfU32)
        countFault == env.fault /\ Beyond(content, st.offset, SizeOfU32)
    IN  IF countFault
        THEN [st EXCEPT !.pastEnd = TRUE, !.crashed = TRUE]
        ELSE IF num_frames = U32Zero
        THEN [st EXCEPT !.offset = offset1,
                        !.num[t] = num_frames,
                        !.frames[t] = NullPtr,
                        !.consumed[t] = U32FromNat(SizeOfU32),
                        !.pastEnd = @ \/ countPast]
        ELSE IF cpy_size = U32Zero
        THEN \* malloc(0), memcpy of no bytes
             [st EXCEPT !.offset = offset1,
                        !.num[t] = num_frames,
                        !.frames[t] = IF allocNull THEN NullPtr ELSE Block(<< >>),
                        !.consumed[t] = U32FromNat(SizeOfU32),
                        !.pastEnd = @ \/ countPast]
        ELSE IF allocNull
        THEN \* memcpy into the NULL that malloc returned
             [st EXCEPT !.num[t] = num_frames,
                        !.pastEnd = @ \/ countPast,
                        !.nullCopy = TRUE,
                        !.crashed = TRUE]
        ELSE IF ~U32IsSmall(cpy_size)
                \/ (env.fault /\ Beyond(content, offset1, U32Val(cpy_size)))
        THEN \* the copy runs off the mapped memory behind content
             [st EXCEPT !.num[t] = num_frames,
                        !.pastEnd = TRUE,
                        !.crashed = TRUE]
        ELSE [st EXCEPT !.offset = U32Add(offset1, cpy_size),
                        !.num[t] = num_frames,
                        !.frames[t] =
                           Block(MemRead(content, offset1, U32Val(cpy_size), env.g)),
                        !.consumed[t] =
                           U32Add(U32FromNat(SizeOfU32), cpy_size),
                        !.pastEnd = @ \/ countPast
                                      \/ PastEnd(content, offset1, U32Val(cpy_size))]

RECURSIVE DecodeUpTo(_, _, _)
DecodeUpTo(content, env, t) ==
  IF t < VMDL_BONE THEN DecodeHeader(content, env)
  ELSE DecodeCategory(content, env, t, DecodeUpTo(content, env, t - 1))

(***************************************************************************)
(* VMDLoadFromFile.  file is what fname names ([exists, bytes]), err the   *)
(* value of VMD_ERROR before the call.  The result tells the pointer       *)
(* returned, the value of VMD_ERROR after the call, whether the process    *)
(* faulted, and what the call did on the way.                              *)
(***************************************************************************)
\* what the call obtained and gave back on the way to its return at path:
\* fopen (113) and fclose (134, 140, 144) of fp, malloc (130) and free
\* (151, 229) of content.  A call that faults gives nothing back after the
\* fclose of line 144.
LoadStorage(path, crashed) ==
  [fopen  |-> IF path = "open" THEN 0 ELSE 1,
   fclose |-> IF path = "open" THEN 0 ELSE 1,
   malloc |-> IF path \in {"open", "nomem"} THEN 0 ELSE 1,
   free   |-> IF path \in {"magic", "walk"} /\ ~crashed THEN 1 ELSE 0]

LoadResult(ret, err, path, st) ==
  [ret |-> ret, err |-> err, path |-> path,
   held |-> LoadStorage(path, st.crashed),
   crashed  |-> st.crashed,
   pastEnd  |-> st.pastEnd,
   nullCopy |-> st.nullCopy,
   consumed |-> IF st.crashed THEN [t \in VMDStructType |-> U32Zero]
                ELSE st.consumed]

\* a walk that never started
NoWalk ==
  [crashed |-> FALSE, pastEnd |-> FALSE, nullCopy |-> FALSE,
   consumed |-> [t \in VMDStructType |-> U32Zero]]

VMDLoadFromFile(file, env, err) ==
  LET content == file.bytes
      fsize   == Len(file.bytes)
  IN  IF ~file.exists \/ ~env.fopenOK
      THEN \* fp == NULL
           LoadResult(NullFile, VMDLIB_E_FH, "open", NoWalk)
      ELSE IF env.mallocFail = 1
      THEN \* content == NULL
           LoadResult(NullFile, VMDLIB_E_ME, "nomem", NoWalk)
      ELSE IF fsize = 0 \/ ~env.freadOK
      THEN \* fread(content, fsize, 1, fp) == 0: VMD_ERROR is left as it was
           LoadResult(NullFile, err, "read", NoWalk)
      ELSE IF env.fault /\ Beyond(content, U32Zero, MagicLen)
      THEN \* memcmp leaves the block of fsize + 1 bytes
           LoadResult(NullFile, err, "magic",
                      [NoWalk EXCEPT !.crashed = TRUE, !.pastEnd = TRUE])
      ELSE IF ~VMDCheckHeader(content, env.g)
      THEN LoadResult(NullFile, VMDLIB_E_FT, "magic",
                      [NoWalk EXCEPT !.pastEnd = PastEnd(content, U32Zero, MagicLen)])
      ELSE
        LET st  == DecodeUpTo(content, env, VMDL_IK)
            st1 == [st EXCEPT !.pastEnd = @ \/ PastEnd(content, U32Zero, MagicLen)]
        IN  IF st.crashed
            THEN LoadResult(NullFile, err, "walk", st1)
            ELSE LoadResult([null |-> FALSE, header |-> st.header,
                             num |-> st.num, frames |-> st.frames],
                            err, "walk", st1)

(***************************************************************************)
(* VMDWriteToFile.  env.fopenOK: the sink can be opened; env.writeFail:    *)
(* the first of the 13 fwrite calls that writes nothing, as do the calls   *)
(* after it (0: none).  The fwrite calls are numbered 1 (header), 2 + 2t   *)
(* (count of category t), 3 + 2t (records of category t).                  *)
(***************************************************************************)
\* how many bytes behind a block an fwrite that overruns it puts out
\* before the kernel refuses the rest
OverRun == 8

WriteFails(env, k) == env.writeFail # 0 /\ k >= env.writeFail

\* what fwrite number k appends when asked for these bytes
Fwrite(env, k, bytes) == IF WriteFails(env, k) THEN << >> ELSE bytes

\* fwrite(frames, sizeof(frames[0]), num_frames, fp) takes
\* sizeof * num_frames bytes, which the block holds unless the 32-bit
\* cpy_size it was allocated with had wrapped
WriteOverruns(vf, t) ==
  /\ ~vf.frames[t].null
  /\ \/ U32MulOverflows(SizeOfFrame(t), vf.num[t])
     \/ ~U32IsSmall(U32Mul(SizeOfFrame(t), vf.num[t]))
     \/ U32Val(U32Mul(SizeOfFrame(t), vf.num[t])) > Len(vf.frames[t].mem)

\* an encoder that writes nothing for a category without records, not even
\* its count
WriteCategorySkippingEmpty(vf, env, g, t) ==
  IF vf.frames[t].null THEN << >>
  ELSE Fwrite(env, 2 + 2 * t, vf.num[t])
       \o Fwrite(env, 3 + 2 * t, vf.frames[t].mem)

\* the bytes the two fwrite calls of category t append; g fills what an
\* overrunning fwrite reads behind the block
WriteCategory(vf, env, g, t) ==
  Fwrite(env, 2 + 2 * t, vf.num[t])
  \o (IF vf.frames[t].null THEN << >>
      ELSE IF WriteOverruns(vf, t)
      THEN Fwrite(env, 3 + 2 * t,
                  vf.frames[t].mem \o [i \in 1..OverRun |-> g])
      ELSE Fwrite(env, 3 + 2 * t, vf.frames[t].mem))

RECURSIVE WriteUpTo(_, _, _, _)
WriteUpTo(vf, env, g, t) ==
  IF t < VMDL_BONE THEN Fwrite(env, 1, vf.header)
  ELSE WriteUpTo(vf, env, g, t - 1) \o WriteCategory(vf, env, g, t)

\* the categories whose fwrite reads behind its block
OverrunSet(vf) == {t \in VMDStructType : WriteOverruns(vf, t)}

\* an fwrite call that was made and wrote less than it was asked to
ShortWrite(vf, env) ==
  \E k \in 1..13 :
     /\ WriteFails(env, k)
     /\ \/ k = 1
        \/ k % 2 = 0
        \/ /\ ~vf.frames[(k - 3) \div 2].null
           /\ vf.frames[(k - 3) \div 2].mem # << >>

WriteResult(ret, err, file, crashed, overrun, short) ==
  [ret |-> ret, err |-> err, file |-> file,
   crashed |-> crashed, overrun |-> overrun, short |-> short]

\* the outcomes of VMDWriteToFile(vf, fname): the value returned, VMD_ERROR
\* and the file afterwards
VMDWriteToFile(vf, file, env, err) ==
  IF vf.null
  THEN {WriteResult(FALSE, VMDLIB_E_IV, file, FALSE, FALSE, FALSE)}
  ELSE IF ~env.fopenOK
  THEN {WriteResult(FALSE, VMDLIB_E_FH, file, FALSE, FALSE, FALSE)}
  ELSE IF OverrunSet(vf) # {}
  THEN \* either the read behind the block faults, and what stdio had
       \* buffered is lost, or indeterminate bytes go out
       {WriteResult(FALSE, err, [exists |-> TRUE, bytes |-> << >>],
                    TRUE, TRUE, FALSE)}
       \cup {WriteResult(TRUE, err,
                         [exists |-> TRUE,
                          bytes |-> WriteUpTo(vf, env, g, VMDL_IK)],
                         FALSE, TRUE, TRUE) : g \in Garbage}
  ELSE {WriteResult(TRUE, err,
                    [exists |-> TRUE, bytes |-> WriteUpTo(vf, env, 0, VMDL_IK)],
                    FALSE, FALSE, ShortWrite(vf, env))}

(***************************************************************************)
(* VMDqsort.  The C library's qsort is modelled by its contract: with a    *)
(* comparator that is a consistent ordering of the elements it returns     *)
(* some permutation in which no element compares greater than its          *)
(* successor; with any other comparator its behaviour is undefined, and    *)
(* any permutation may come out.  It makes no comparison for fewer than    *)
(* two elements.                                                           *)
(***************************************************************************)
\* a comparator with its operands exchanged, which orders descending
CompareFrameNumberSwapped(type, a, b) ==
  U32ToInt(U32Sub(FrameOf(b, type), FrameOf(a, type)))

\* __VMDCompare{Bone,Morph,Camera,Light,Shadow,IK}FrameNumber: the
\* difference of the two uint32_t frame fields, returned as int
VMDCompareFrameNumber(type, a, b) ==
  U32ToInt(U32Sub(FrameOf(a, type), FrameOf(b, type)))

Perms(n) ==
  {p \in [1..n -> 1..n] : \A i, j \in 1..n : i # j => p[i] # p[j]}

\* element i of an array of elements of the given size
Elem(bytes, size, i) == SubSeq(bytes, (i - 1) * size + 1, i * size)

RECURSIVE Concat(_, _, _)
Concat(elems, p, k) ==
  IF k = 0 THEN << >> ELSE Concat(elems, p, k - 1) \o elems[p[k]]

\* the comparator orders these elements consistently
Consistent(elems, type) ==
  LET n == Len(elems)
      c(i, j) == VMDCompareFrameNumber(type, elems[i], elems[j])
  IN  /\ \A i, j \in 1..n : (c(i, j) < 0) = (c(j, i) > 0)
      /\ \A i, j \in 1..n : (c(i, j) = 0) = (c(j, i) = 0)
      /\ \A i, j, k \in 1..n : c(i, j) <= 0 /\ c(j, k) <= 0 => c(i, k) <= 0

\* the orders qsort may leave the elements in
QsortPerms(elems, type) ==
  LET n == Len(elems)
  IN  IF Consistent(elems, type)
      THEN {p \in Perms(n) :
              \A i \in 1..(n - 1) :
                 VMDCompareFrameNumber(type, elems[p[i]], elems[p[i + 1]]) <= 0}
      ELSE Perms(n)

QsortResult(ptr, crashed, oob, ran) ==
  [ptr |-> ptr, crashed |-> crashed, oob |-> oob, ran |-> ran]

\* the outcomes of VMDqsort(data, num, size, type): the block data points
\* at afterwards, whether the process faulted, whether bytes outside the
\* block were read or written, and whether qsort compared anything
VMDqsort(data, num, size, type) ==
  IF data.null
  THEN {QsortResult(data, FALSE, FALSE, FALSE)}
  ELSE IF num = U32Zero \/ num = U32FromNat(1)
  THEN {QsortResult(data, FALSE, FALSE, FALSE)}
  ELSE IF type \notin VMDStructType
  THEN \* funcp == NULL is called
       {QsortResult(data, TRUE, FALSE, FALSE)}
  ELSE IF U32MulOverflows(size, num) \/ ~U32IsSmall(U32Mul(size, num))
  THEN \* the array runs off the mapped memory behind the block
       {QsortResult(data, TRUE, TRUE, TRUE)}
  ELSE
    LET n     == U32Val(num)
        total == n * size
        over  == total > Len(data.mem)
        ext(g) == [i \in 1..total |->
                     IF i <= Len(data.mem) THEN data.mem[i] ELSE g]
        elems(g) == [i \in 1..n |-> Elem(ext(g), size, i)]
        sorted(g) ==
          {QsortResult(Block(SubSeq(Concat(elems(g), p, n), 1, Len(data.mem))),
                       FALSE, over, TRUE) : p \in QsortPerms(elems(g), type)}
    IN  IF over
        THEN \* the array runs behind the block: a fault, or indeterminate
             \* bytes are sorted with it
             {QsortResult(data, TRUE, TRUE, TRUE)}
             \cup UNION {sorted(g) : g \in Garbage}
        ELSE sorted(0)

\* the size VMDSortAllFrames passes for each category (lines 332-343)
SortAllSize(t) ==
  CASE t = VMDL_BONE -> SizeOfFrame(VMDL_BONE)
    [] t = VMDL_MORPH -> SizeOfFrame(VMDL_MORPH)
    [] t = VMDL_CAMERA -> SizeOfFrame(VMDL_CAMERA)
    [] t = VMDL_LIGHT -> SizeOfFrame(VMDL_CAMERA)
    [] t = VMDL_SHADOW -> SizeOfFrame(VMDL_CAMERA)
    [] t = VMDL_IK -> SizeOfFrame(VMDL_CAMERA)

\* VMDSortAllFrames: the six VMDqsort calls in turn
RECURSIVE SortAllUpTo(_, _)
SortAllUpTo(vf, t) ==
  IF t < VMDL_BONE
  THEN {[vf |-> vf, crashed |-> FALSE, oob |-> FALSE]}
  ELSE UNION
         { IF o.crashed THEN {o}
           ELSE {[vf |-> [o.vf EXCEPT !.frames[t] = q.ptr],
                  crashed |-> q.crashed,
                  oob |-> o.oob \/ q.oob] :
                    q \in VMDqsort(o.vf.frames[t], o.vf.num[t],
                                   SortAllSize(t), t)} :
           o \in SortAllUpTo(vf, t - 1) }

VMDSortAllFrames(vf) ==
  IF vf.null
  THEN \* vf->bone_frames of a NULL vf
       {[vf |-> vf, crashed |-> TRUE, oob |-> FALSE]}
  ELSE SortAllUpTo(vf, VMDL_IK)

\* VMDReleaseVMDFile: the storage is freed, and the caller's pointer is
\* dead afterwards
VMDReleaseVMDFile(vf) == NullFile

\* VMDReleaseVMDFile: how often it calls free on the record storage of each
\* category and on the VMDFile itself
ReleaseFrees(vf) ==
  [frames |-> [t \in VMDStructType |->
                 IF vf.null \/ vf.frames[t].null THEN 0 ELSE 1],
   vf     |-> IF vf.null THEN 0 ELSE 1]

(***************************************************************************)
(* The input files the model starts from, laid out as the comment of       *)
(* vmd.h (lines 31-55) lays a VMD file out.                                *)
(***************************************************************************)
\* the frame numbers the records of the input files carry
FrameVals ==
  { << 1, 0, 0, 0 >>, << 255, 255, 255, 127 >>, << 255, 255, 255, 255 >> }

\* char model_name[20]
ModelName == << 77, 105, 107, 117 >> \o [i \in 1..16 |-> 0]

GoodHeader == VMDLIB_MAGIC \o ModelName

\* one record of category t: the frame field, every other byte the tag
RecordBytes(t, frame, tag) ==
  [i \in 1..SizeOfFrame(t) |->
     IF i > FrameOffset(t) /\ i <= FrameOffset(t) + SizeOfU32
     THEN frame[i - FrameOffset(t)] ELSE tag]

RECURSIVE Flatten(_)
Flatten(ss) == IF ss = << >> THEN << >> ELSE Head(ss) \o Flatten(Tail(ss))

\* header, then per category its count and its body
FileBytes(header, count, body) ==
  header \o Flatten([k \in 1..6 |-> count[k - 1] \o body[k - 1]])

\* a well-formed file with the given records (a sequence per category)
FileOfRecords(recs) ==
  FileBytes(GoodHeader,
            [t \in VMDStructType |-> U32FromNat(Len(recs[t]))],
            [t \in VMDStructType |-> Flatten(recs[t])])

\* files with records in one category only: every sequence of up to
\* MaxFrames frame numbers; record i carries the tag 16 + i
OneCategoryFiles ==
  { FileOfRecords([t \in VMDStructType |->
                     IF t = c
                     THEN [i \in 1..Len(fs) |-> RecordBytes(t, fs[i], 16 + i)]
                     ELSE << >>]) :
      c \in VMDStructType,
      fs \in UNION {[1..n -> FrameVals] : n \in 1..MaxFrames} }

\* files with at most one record in every category, the empty document
\* among them
MixedFiles ==
  { FileOfRecords([t \in VMDStructType |->
                     IF t \in present
                     THEN << RecordBytes(t, U32FromNat(7 - t), 32 + t) >>
                     ELSE << >>]) :
      present \in {VMDL_BONE .. k : k \in -1 .. VMDL_IK}
                    \cup {k .. VMDL_IK : k \in VMDStructType} }

EmptyDocFile == FileOfRecords([t \in VMDStructType |-> << >>])

\* one byte of the magic changed
CorruptFiles ==
  { [f EXCEPT ![p] = IF @ = 0 THEN 1 ELSE 0] :
      f \in {EmptyDocFile}, p \in 1..MagicLen }

FullDocFile ==
  FileOfRecords([t \in VMDStructType |->
                   << RecordBytes(t, U32FromNat(7 - t), 32 + t) >>])

\* a well-formed file cut short: inside the magic, inside the header,
\* inside the first count, before the first record, inside a record
TruncatedFiles ==
  UNION { { SubSeq(f, 1, n) :
              n \in {0, MagicLen - 1, SizeOfHeader - 1, SizeOfHeader + 2,
                     SizeOfHeader + SizeOfU32, Len(f) - 1} } :
          f \in {EmptyDocFile, FullDocFile} }

\* counts whose 32-bit cpy_size wraps: 9 * 477218589 = 2^32 + 5 (Shadow,
\* followed by five bytes) and 28 * 2^30 = 7 * 2^32 (Light)
WrapFiles ==
  { FileBytes(GoodHeader,
              [t \in VMDStructType |->
                 IF t = VMDL_SHADOW THEN << 29, 199, 113, 28 >> ELSE U32Zero],
              [t \in VMDStructType |->
                 IF t = VMDL_SHADOW THEN << 9, 0, 0, 0, 1 >> ELSE << >>]),
    FileBytes(GoodHeader,
              [t \in VMDStructType |->
                 IF t = VMDL_LIGHT THEN << 0, 0, 0, 64 >> ELSE U32Zero],
              [t \in VMDStructType |-> << >>]) }

InputFiles ==
  OneCategoryFiles \cup MixedFiles \cup CorruptFiles \cup TruncatedFiles
    \cup WrapFiles

(***************************************************************************)
(* The environment of a call.                                              *)
(***************************************************************************)
CleanEnv ==
  [fopenOK |-> TRUE, freadOK |-> TRUE, mallocFail |-> 0,
   g |-> 0, fault |-> FALSE]

\* decoding these bytes reads indeterminate memory, so that the outcome
\* depends on what the environment puts there
Indeterminate(bytes) ==
  \/ PastEnd(bytes, U32Zero, MagicLen)
  \/ /\ VMDCheckHeader(bytes, 0)
     /\ DecodeUpTo(bytes, CleanEnv, VMDL_IK).pastEnd

\* fopen fails, or malloc(fsize + 1) fails, or fread fails, or none of
\* these and the walk meets its own failures
LoadEnvs(bytes) ==
  { [CleanEnv EXCEPT !.fopenOK = FALSE],
    [CleanEnv EXCEPT !.mallocFail = 1],
    [CleanEnv EXCEPT !.freadOK = FALSE] }
  \cup [fopenOK : {TRUE}, freadOK : {TRUE}, mallocFail : {0} \cup 2..8,
        g : IF Indeterminate(bytes) THEN Garbage ELSE {0},
        fault : IF Indeterminate(bytes) THEN BOOLEAN ELSE {FALSE}]

\* the environment let the call through: the file opened, every malloc
\* returned a block, fread read what the file holds
EnvOK(env) == env.fopenOK /\ env.freadOK /\ env.mallocFail = 0

\* the fwrite calls the model lets fail: none, the first, the last
WriteFailPoints == {0, 1, 13}

WriteEnvs ==
  {[fopenOK |-> FALSE, writeFail |-> 0]}
  \cup [fopenOK : {TRUE}, writeFail : WriteFailPoints]

\* values of type VMDStructType that are none of its six enumerators
InvalidTypes == {VMDL_IK + 1}

FileNames == {"in", "out"}

(***************************************************************************)
(* The state of a program that uses the library as main() of example.c     *)
(* does: it loads "in", may sort, writes "out", releases the document;     *)
(* then it loads "out" again.  Unlike main(), it goes on when a call       *)
(* failed.                                                                 *)
(***************************************************************************)
VARIABLES
  files,      \* the file system: name -> [exists, bytes]
  VMD_ERROR,  \* the global error code
  vf,         \* the caller's VMDFile pointer
  pc,         \* the call the program makes next; "crashed" after a fault
  last,       \* the last call: its arguments, environment and result
  fresh,      \* vf is as the decoder returned it
  enc         \* the document VMDWriteToFile last wrote to "out"

vars == << files, VMD_ERROR, vf, pc, last, fresh, enc >>

NoEnc == [valid |-> FALSE, doc |-> NullFile, writeFail |-> 0, fresh |-> FALSE]

Init ==
  /\ files \in {[n \in FileNames |->
                   IF n = "in" THEN [exists |-> TRUE, bytes |-> b]
                   ELSE [exists |-> FALSE, bytes |-> << >>]] :
                 b \in InputFiles}
  /\ VMD_ERROR = VMDLIB_E_INIT
  /\ vf = NullFile
  /\ pc = "load"
  /\ last = [op |-> "init"]
  /\ fresh = FALSE
  /\ enc = NoEnc

\* vf = VMDLoadFromFile(fname)
Load(fname) ==
  /\ \/ pc = "load" /\ fname = "in"
     \/ pc = "reload" /\ fname = "out"
  /\ \E env \in LoadEnvs(files[fname].bytes) :
       LET r == VMDLoadFromFile(files[fname], env, VMD_ERROR)
       IN  /\ vf' = r.ret
           /\ fresh' = ~r.ret.null
           /\ VMD_ERROR' = r.err
           /\ pc' = IF r.crashed THEN "crashed"
                    ELSE IF pc = "load" THEN "sort" ELSE "done"
           /\ last' = [op |-> "load", fname |-> fname,
                       envOK |-> EnvOK(env), mallocFail |-> env.mallocFail,
                       pre |-> VMD_ERROR, res |-> r]
  /\ UNCHANGED << files, enc >>

\* VMDqsort(vf-><t>_frames.frames, vf-><t>_frames.num_frames,
\*          sizeof(<t> single frame), type)
Qsort(t, type) ==
  /\ pc = "sort"
  /\ ~vf.null
  /\ \E q \in VMDqsort(vf.frames[t], vf.num[t], SizeOfFrame(t), type) :
         /\ vf' = [vf EXCEPT !.frames[t] = q.ptr]
         /\ fresh' = (fresh /\ q.ptr = vf.frames[t])
         /\ pc' = IF q.crashed THEN "crashed" ELSE "write"
         /\ last' = [op |-> "qsort", cat |-> t, type |-> type,
                     pre |-> VMD_ERROR, arg |-> vf, res |-> q]
  /\ UNCHANGED << files, VMD_ERROR, enc >>

\* VMDSortAllFrames(vf)
SortAll ==
  /\ pc = "sort"
  /\ \E o \in VMDSortAllFrames(vf) :
         /\ vf' = o.vf
         /\ fresh' = (fresh /\ o.vf = vf)
         /\ pc' = IF o.crashed THEN "crashed" ELSE "write"
         /\ last' = [op |-> "sortall", pre |-> VMD_ERROR,
                     arg |-> vf, res |-> o]
  /\ UNCHANGED << files, VMD_ERROR, enc >>

\* VMDWriteToFile(vf, "out")
Write ==
  /\ pc \in {"sort", "write"}
  /\ \E env \in WriteEnvs :
       \E r \in VMDWriteToFile(vf, files["out"], env, VMD_ERROR) :
           /\ files' = [files EXCEPT !["out"] = r.file]
           /\ VMD_ERROR' = r.err
           /\ pc' = IF r.crashed THEN "crashed" ELSE "release"
           /\ enc' = IF r.ret
                     THEN [valid |-> TRUE, doc |-> vf,
                           writeFail |-> env.writeFail,
                           fresh |-> fresh]
                     ELSE IF r.file = files["out"] THEN enc ELSE NoEnc
           /\ last' = [op |-> "write", fopenOK |-> env.fopenOK,
                       writeFail |-> env.writeFail, fresh |-> fresh,
                       pre |-> VMD_ERROR, res |-> r]
  /\ UNCHANGED << vf, fresh >>

\* VMDReleaseVMDFile(vf); vf = NULL
Release ==
  /\ pc = "release"
  /\ vf' = VMDReleaseVMDFile(vf)
  /\ fresh' = FALSE
  /\ pc' = "reload"
  /\ last' = [op |-> "release", arg |-> vf, res |-> ReleaseFrees(vf)]
  /\ UNCHANGED << files, VMD_ERROR, enc >>

Next ==
  \/ \E fname \in FileNames : Load(fname)
  \/ \E t \in VMDStructType : \E type \in {t} \cup InvalidTypes : Qsort(t, type)
  \/ SortAll
  \/ Write
  \/ Release

Spec == Init /\ [][Next]_vars

(***************************************************************************)
(* Vocabulary of the properties.                                           *)
(***************************************************************************)
\* the records a block holds, read with the record size of category t
Records(ptr, t) ==
  [i \in 1..(Len(ptr.mem) \div SizeOfFrame(t)) |->
     Elem(ptr.mem, SizeOfFrame(t), i)]

\* their frame indices
FrameIndices(ptr, t) ==
  [i \in 1..(Len(ptr.mem) \div SizeOfFrame(t)) |-> FrameOf(Records(ptr, t)[i], t)]

\* the count of category t is the number of records its storage holds
CountMatches(d, t) ==
  IF d.frames[t].null THEN d.num[t] = U32Zero
  ELSE /\ U32IsSmall(d.num[t])
       /\ Len(d.frames[t].mem) = U32Val(d.num[t]) * SizeOfFrame(t)

\* every frame index of category t lies in 0 .. 2^31 - 1
FramesBelow2p31(d, t) ==
  \A i \in 1..Len(FrameIndices(d.frames[t], t)) :
     FrameIndices(d.frames[t], t)[i][4] < 128

IsPermutation(a, b) ==
  /\ Len(a) = Len(b)
  /\ \E p \in Perms(Len(a)) : \A i \in 1..Len(a) : b[i] = a[p[i]]

\* non-decreasing as unsigned 32-bit values
NonDecreasing(fs) ==
  \A i \in 1..(Len(fs) - 1) : ~U32Less(fs[i + 1], fs[i])

\* the first 30 bytes are the magic constant
HasMagic(bytes) ==
  Len(bytes) >= MagicLen /\ SubSeq(bytes, 1, MagicLen) = VMDLIB_MAGIC

\* walking the layout from category t at offset off, some count is missing
\* or declares more record bytes than remain
RECURSIVE Overruns(_, _, _)
Overruns(bytes, t, off) ==
  IF t > VMDL_IK THEN FALSE
  ELSE IF off + SizeOfU32 > Len(bytes) THEN TRUE
  ELSE LET n == SubSeq(bytes, off + 1, off + SizeOfU32)
       IN  IF ~U32IsSmall(n) THEN TRUE
           ELSE IF U32Val(n) * SizeOfFrame(t) > Len(bytes) - off - SizeOfU32
           THEN TRUE
           ELSE Overruns(bytes, t + 1,
                         off + SizeOfU32 + U32Val(n) * SizeOfFrame(t))

Truncated(bytes) == Overruns(bytes, VMDL_BONE, SizeOfHeader)

\* the encoding the format defines for a document
Encoding(d) ==
  d.header
  \o Flatten([k \in 1..6 |->
                d.num[k - 1]
                \o (IF d.frames[k - 1].null THEN << >> ELSE d.frames[k - 1].mem)])

(***************************************************************************)
(* C1.  Round trip.                                                        *)
(***************************************************************************)
\* the environment did not fail the call that wrote "out": the sink opened
\* and no fwrite was refused
WroteUnhindered == last.op = "write" /\ last.fopenOK /\ last.writeFail = 0

\* C1: for every document d that a successful VMDLoadFromFile returned,
\* VMDWriteToFile(d) puts out the bytes of d, and VMDLoadFromFile of those
\* bytes succeeds and returns a document with the same header, the same six
\* counts and the same records in the same order in every category.
C1_RoundTrip ==
  /\ (WroteUnhindered /\ last.fresh)
       => /\ pc # "crashed"
          /\ last.res.ret
          /\ ~last.res.overrun
  /\ (/\ last.op = "load" /\ last.fname = "out" /\ last.envOK
      /\ enc.valid /\ enc.fresh /\ enc.writeFail = 0)
       => /\ pc # "crashed"
          /\ ~vf.null
          /\ vf.header = enc.doc.header
          /\ vf.num = enc.doc.num
          /\ vf.frames = enc.doc.frames

\* the same for the documents whose counts all match their storage, which
\* leaves out those decoded with a wrapped 32-bit cpy_size
RoundTripOfMatchingCounts ==
  /\ (WroteUnhindered /\ last.fresh /\ \A t \in VMDStructType : CountMatches(vf, t))
       => /\ pc # "crashed"
          /\ last.res.ret
          /\ ~last.res.overrun
          /\ files["out"].bytes = Encoding(vf)
  /\ (/\ last.op = "load" /\ last.fname = "out" /\ last.envOK
      /\ enc.valid /\ enc.fresh /\ enc.writeFail = 0
      /\ \A t \in VMDStructType : CountMatches(enc.doc, t))
       => /\ pc # "crashed"
          /\ vf = enc.doc

\* a document was written and read back
RoundTripDone ==
  /\ last.op = "load" /\ last.fname = "out" /\ last.envOK
  /\ enc.valid /\ enc.fresh /\ enc.writeFail = 0
  /\ ~vf.null
  /\ \E t \in VMDStructType : Len(vf.frames[t].mem) > 0

(***************************************************************************)
(* C2, C3, C7.  The failures of VMDLoadFromFile.                           *)
(***************************************************************************)
\* the file the last VMDLoadFromFile read
LoadedBytes == files[last.fname].bytes

\* VMDLoadFromFile was called on an existing file and the environment did
\* not fail it
LoadedUnhindered ==
  last.op = "load" /\ files[last.fname].exists /\ last.envOK

\* C2: for every input buffer whose first 30 bytes differ from the magic
\* constant in at least one byte, a buffer shorter than the header included,
\* VMDLoadFromFile returns no document and VMD_ERROR is VMDLIB_E_FT.
C2_HeaderRejection ==
  (LoadedUnhindered /\ ~HasMagic(LoadedBytes))
    => /\ pc # "crashed"
       /\ vf.null
       /\ VMD_ERROR = VMDLIB_E_FT

\* the same for the buffers that hold at least the 30 bytes of the magic
HeaderRejectionOfLongBuffers ==
  (LoadedUnhindered /\ ~HasMagic(LoadedBytes) /\ Len(LoadedBytes) >= MagicLen)
    => /\ pc # "crashed"
       /\ vf.null
       /\ VMD_ERROR = VMDLIB_E_FT
       /\ ~last.res.pastEnd

\* C3: for every buffer with the magic in which a category's count is
\* missing or declares more record bytes than remain, VMDLoadFromFile fails
\* with an error and reads nothing at or past the end of the buffer.
C3_TruncatedInput ==
  (LoadedUnhindered /\ HasMagic(LoadedBytes) /\ Truncated(LoadedBytes))
    => /\ pc # "crashed"
       /\ vf.null
       /\ VMD_ERROR # last.pre
       /\ ~last.res.pastEnd

\* the walk stays inside the buffers that are not truncated
CompleteInputStaysInside ==
  (LoadedUnhindered /\ HasMagic(LoadedBytes) /\ ~Truncated(LoadedBytes))
    => /\ pc # "crashed"
       /\ ~vf.null
       /\ ~last.res.pastEnd
       /\ \A t \in VMDStructType : CountMatches(vf, t)

\* C7: on every failing path of VMDLoadFromFile (the source cannot be
\* opened, the source cannot be read, the magic does not match, the
\* allocation of the raw buffer, of the document or of a category's record
\* storage fails) it returns no document and sets VMD_ERROR to the matching
\* kind; it never copies into record storage whose allocation failed.
C7_DecodeFailureReporting ==
  last.op = "load"
    => /\ last.res.path = "open"
         => vf.null /\ VMD_ERROR = VMDLIB_E_FH
       /\ last.res.path = "nomem"
         => vf.null /\ VMD_ERROR = VMDLIB_E_ME
       /\ last.res.path = "read"
         => vf.null /\ VMD_ERROR = VMDLIB_E_FH
       /\ (last.res.path = "magic" /\ ~last.res.crashed)
         => vf.null /\ VMD_ERROR = VMDLIB_E_FT
       /\ ~last.res.nullCopy
       /\ (last.res.path = "walk" /\ last.mallocFail = 2)
         => pc # "crashed" /\ vf.null /\ VMD_ERROR = VMDLIB_E_ME

\* the failures the code does report: open, raw-buffer allocation, magic
ReportedDecodeFailures ==
  last.op = "load"
    => /\ last.res.path = "open"
         => vf.null /\ VMD_ERROR = VMDLIB_E_FH
       /\ last.res.path = "nomem"
         => vf.null /\ VMD_ERROR = VMDLIB_E_ME
       /\ (last.res.path = "magic" /\ ~last.res.crashed)
         => vf.null /\ VMD_ERROR = VMDLIB_E_FT

(***************************************************************************)
(* C4, C5, C8.  VMDqsort.                                                  *)
(***************************************************************************)
\* VMDqsort was called on category last.cat with that category's record
\* size and with that category's selector, on storage that holds as many
\* records as the count says
SortedOneCategory ==
  /\ last.op = "qsort"
  /\ last.type = last.cat
  /\ CountMatches(last.arg, last.cat)

\* C4: for each of the six selectors and a category of any length whose
\* frame indices all lie in 0 .. 2^31 - 1, after VMDqsort with that
\* category's record size the records are a permutation of the records
\* before the call and their frame indices are in non-decreasing order; a
\* category of 0 or 1 records is returned unchanged; VMD_ERROR is not
\* written.
C4_SortCorrectness ==
  (SortedOneCategory /\ FramesBelow2p31(last.arg, last.cat))
    => /\ pc # "crashed"
       /\ ~last.res.oob
       /\ vf.frames[last.cat].null = last.arg.frames[last.cat].null
       /\ IsPermutation(Records(last.arg.frames[last.cat], last.cat),
                        Records(vf.frames[last.cat], last.cat))
       /\ NonDecreasing(FrameIndices(vf.frames[last.cat], last.cat))
       /\ Len(Records(last.arg.frames[last.cat], last.cat)) <= 1
            => vf.frames[last.cat] = last.arg.frames[last.cat]
       /\ \A t \in VMDStructType \ {last.cat} : vf.frames[t] = last.arg.frames[t]
       /\ vf.num = last.arg.num
       /\ VMD_ERROR = last.pre

\* VMDqsort has put records that were out of order into order
C4_Reordered ==
  /\ SortedOneCategory /\ FramesBelow2p31(last.arg, last.cat)
  /\ Len(Records(last.arg.frames[last.cat], last.cat)) >= 2
  /\ ~NonDecreasing(FrameIndices(last.arg.frames[last.cat], last.cat))
  /\ vf.frames[last.cat] # last.arg.frames[last.cat]
  /\ NonDecreasing(FrameIndices(vf.frames[last.cat], last.cat))

\* C5: for every pair of 32-bit frame indices a < b compared as unsigned
\* values, pairs with b - a >= 2^31 included, the comparators order the
\* record with index a before the record with index b: after VMDqsort the
\* frame indices of the category are in non-decreasing unsigned order.
C5_UnsignedFrameComparison ==
  SortedOneCategory
    => /\ pc # "crashed"
       /\ NonDecreasing(FrameIndices(vf.frames[last.cat], last.cat))

\* C8: VMDqsort with a selector that is none of the six VMDStructType
\* values sets VMD_ERROR to VMDLIB_E_IV and leaves the records in their
\* original order, with no sort being run.
C8_InvalidSelector ==
  (last.op = "qsort" /\ last.type \notin VMDStructType)
    => /\ pc # "crashed"
       /\ VMD_ERROR = VMDLIB_E_IV
       /\ vf = last.arg
       /\ ~last.res.ran

(***************************************************************************)
(* C6.  VMDSortAllFrames.                                                  *)
(***************************************************************************)
\* VMDSortAllFrames was called on a document whose counts all match their
\* storage
SortedAll ==
  /\ last.op = "sortall"
  /\ ~last.arg.null
  /\ \A t \in VMDStructType : CountMatches(last.arg, t)

\* C6: VMDSortAllFrames sorts all six categories, each with its own record
\* size: afterwards every category holds a permutation of the records it
\* held before, in non-decreasing frame-index order, and no byte outside a
\* category's own count x record-size storage was read or written.  Stated
\* for the documents whose frame indices lie below 2^31, where the
\* comparators order as C4 says.
C6_SortAll ==
  (SortedAll /\ \A t \in VMDStructType : FramesBelow2p31(last.arg, t))
    => /\ pc # "crashed"
       /\ ~last.res.oob
       /\ \A t \in VMDStructType :
            /\ IsPermutation(Records(last.arg.frames[t], t),
                             Records(vf.frames[t], t))
            /\ NonDecreasing(FrameIndices(vf.frames[t], t))

\* what VMDSortAllFrames does achieve: Bone, Morph and Camera are sorted
\* with their own sizes
SortAllOfFirstThree ==
  (/\ SortedAll /\ \A t \in VMDStructType : FramesBelow2p31(last.arg, t)
   /\ \A t \in {VMDL_LIGHT, VMDL_SHADOW, VMDL_IK} :
        Len(Records(last.arg.frames[t], t)) <= 1)
    => /\ pc # "crashed"
       /\ ~last.res.oob
       /\ \A t \in VMDStructType :
            /\ IsPermutation(Records(last.arg.frames[t], t),
                             Records(vf.frames[t], t))
            /\ NonDecreasing(FrameIndices(vf.frames[t], t))

(***************************************************************************)
(* C9.  The results of VMDWriteToFile.                                     *)
(***************************************************************************)
\* C9: VMDWriteToFile reports VMDLIB_E_IV for an absent document and
\* VMDLIB_E_FH when the sink cannot be opened, and it reports success only
\* when the header and all six count-prefixed arrays were written
\* completely; if a write to the sink fails or is short, it reports failure.
C9_EncodeAllOrFailure ==
  last.op = "write"
    => /\ vf.null => (~last.res.ret /\ VMD_ERROR = VMDLIB_E_IV)
       /\ (~vf.null /\ ~last.fopenOK)
            => (~last.res.ret /\ VMD_ERROR = VMDLIB_E_FH)
       /\ last.res.short => ~last.res.ret
       /\ (last.res.ret /\ \A t \in VMDStructType : CountMatches(vf, t))
            => files["out"].bytes = Encoding(vf)

\* the two failures the code does report, and what it writes when no fwrite
\* is refused
ReportedEncodeFailures ==
  last.op = "write"
    => /\ vf.null => (~last.res.ret /\ VMD_ERROR = VMDLIB_E_IV)
       /\ (~vf.null /\ ~last.fopenOK)
            => (~last.res.ret /\ VMD_ERROR = VMDLIB_E_FH)
       /\ (WroteUnhindered /\ ~vf.null
           /\ \A t \in VMDStructType : CountMatches(vf, t))
            => /\ last.res.ret
               /\ ~last.res.short
               /\ files["out"].bytes = Encoding(vf)

(***************************************************************************)
(* C10.  Empty categories.                                                 *)
(***************************************************************************)
\* a 50-byte header with the magic, followed by six zero counts
IsEmptyDocument(bytes) ==
  /\ Len(bytes) = SizeOfHeader + 6 * SizeOfU32
  /\ HasMagic(bytes)
  /\ \A i \in (SizeOfHeader + 1)..Len(bytes) : bytes[i] = 0

\* the length of the encoding: the header, six counts, and the records
EncodedLength(d) ==
  SizeOfHeader
  + 6 * SizeOfU32
  + Len(Flatten([k \in 1..6 |-> d.frames[k - 1].mem]))

\* C10: decoding a valid 50-byte header followed by six zero counts
\* succeeds and yields a document with six empty sequences, and encoding
\* that document emits exactly the 50 header bytes followed by six 4-byte
\* zero counts and nothing else; in general a category with a zero count
\* consumes only its 4-byte count on decode and contributes only its 4-byte
\* count on encode.
C10_EmptyCategories ==
  /\ (LoadedUnhindered /\ IsEmptyDocument(LoadedBytes))
       => /\ pc # "crashed"
          /\ ~vf.null
          /\ vf.header = SubSeq(LoadedBytes, 1, SizeOfHeader)
          /\ \A t \in VMDStructType :
               vf.num[t] = U32Zero /\ vf.frames[t].null
  /\ (last.op = "load" /\ ~vf.null)
       => \A t \in VMDStructType :
            vf.num[t] = U32Zero
              => /\ last.res.consumed[t] = U32FromNat(SizeOfU32)
                 /\ vf.frames[t].null
  /\ (/\ WroteUnhindered /\ ~vf.null
      /\ \A t \in VMDStructType : vf.num[t] = U32Zero /\ vf.frames[t].null)
       => /\ last.res.ret
          /\ files["out"].bytes
               = vf.header \o [i \in 1..(6 * SizeOfU32) |-> 0]
  /\ (/\ WroteUnhindered /\ ~vf.null
      /\ \A t \in VMDStructType : CountMatches(vf, t))
       => /\ Len(files["out"].bytes) = EncodedLength(vf)
          /\ \A t \in VMDStructType :
               vf.num[t] = U32Zero => vf.frames[t].mem = << >>

\* the empty document was decoded and written out again
C10_EmptyWritten ==
  /\ WroteUnhindered /\ last.fresh /\ ~vf.null
  /\ IsEmptyDocument(files["in"].bytes)
  /\ \A t \in VMDStructType : vf.num[t] = U32Zero /\ vf.frames[t].null
  /\ files["out"].bytes = files["in"].bytes
  /\ Len(files["out"].bytes) = 74
(***************************************************************************)
(* Storage.  What a call obtained it has given back when it returns.       *)
(***************************************************************************)
\* VMDLoadFromFile has returned
LoadReturned == last.op = "load" /\ pc # "crashed"

\* the raw buffer, if the call obtained one, was freed once, and the file
\* handle, if the call opened one, was closed once
RawBufferReleased ==
  /\ last.res.held.free = last.res.held.malloc
  /\ last.res.held.fclose = last.res.held.fopen

\* VMDReleaseVMDFile has returned from a document
ReleasedDocument == last.op = "release" /\ ~last.arg.null

\* the record storage of every category that has one, and the document,
\* were freed once
DocumentReleased ==
  /\ \A t \in VMDStructType :
        last.res.frames[t] = IF last.arg.frames[t].null THEN 0 ELSE 1
  /\ last.res.vf = 1
  /\ vf.null

\* C11: whenever VMDLoadFromFile returns, with a document or on a failure
\* path (open failure, raw-buffer allocation failure, read failure, magic
\* mismatch), the raw byte buffer has been freed exactly once and the file
\* handle is closed; and after VMDReleaseVMDFile of a decoded document the
\* record storage of every category and the document itself have been freed
\* exactly once.
C11_NoStorageOutlives ==
  /\ LoadReturned => RawBufferReleased
  /\ ReleasedDocument => DocumentReleased

\* What does hold: the same on every return of VMDLoadFromFile but the one
\* after a failed fread, where the handle is closed and the buffer is kept.
StorageOfOtherPaths ==
  /\ (LoadReturned /\ last.res.path # "read") => RawBufferReleased
  /\ (LoadReturned /\ last.res.path = "read")
       => /\ last.res.held.fclose = 1
          /\ last.res.held.malloc = 1
          /\ last.res.held.free = 0
  /\ ReleasedDocument => DocumentReleased

\* a document with record storage has been released
C11_ReleasedStorage ==
  /\ ReleasedDocument
  /\ \E t \in VMDStructType : ~last.arg.frames[t].null

\* VMDLoadFromFile returned after a failed fread
C11_ReadFailed == LoadReturned /\ last.res.path = "read"

=============================================================================
